---- MODULE Spec2Model ----
(***************************************************************************)
(* Batch request compilation of AskDeen: the two scripts                   *)
(*   src/openai_subtopics_batch_input.py  (subtopic refinement)            *)
(*   src/openai_tags_batch_input.py       (tag generation)                 *)
(* load a JSON list of verses, select verses by surah prefix, render one   *)
(* prompt per verse and write one JSON line per request.                   *)
(*                                                                         *)
(* Representation.  A Python str is a sequence of tokens; a token is one   *)
(* character ("1", "|", NL, QUOTE) or one fixed piece of template text.    *)
(* A Python dict is a function whose DOMAIN is its key set, so             *)
(* `key in d` is key \in DOMAIN d.  A Python list is a sequence.  Python   *)
(* indices are kept 0-based as values; At(data, i) reads data[i].          *)
(***************************************************************************)
EXTENDS Integers, Sequences, FiniteSets, TLC

VARIABLES
    pipeline,        \* which script runs: "subtopics" or "tags"
    source,          \* the input file: [state, data]
    surah_filter,    \* the surah_filter argument: [present, val]
    pc,              \* position of main()/create_batch_file()
    data,            \* create_batch_file: data
    filtered,        \* create_batch_file: filtered_data / filtered_indices
    pos,             \* number of completed iterations of the request loop
    batch_requests,  \* create_batch_file: batch_requests
    output_file,     \* the destination file: [content, opened]
    result,          \* value returned by create_batch_file (num_requests)
    sample,          \* main: sample_request['custom_id'], once displayed
    render           \* direct applications of the prompt renderers

vars == <<pipeline, source, surah_filter, pc, data, filtered, pos,
          batch_requests, output_file, result, sample, render>>

(***************************************************************************)
(* Bounds of the model.                                                    *)
(***************************************************************************)
MaxStore == 3
MaxTransKeys == 4

(***************************************************************************)
(* Python values.                                                          *)
(***************************************************************************)
NL == "\n"
QUOTE == "\""
None == [none |-> TRUE]
EmptyDict == [k \in {} |-> <<>>]

\* bool(v) for a value that is None or a dict
Truthy(v) == v # None /\ DOMAIN v # {}

\* d.get(key, default)
Get(d, key, default) == IF key \in DOMAIN d THEN d[key] ELSE default

\* data[i], i a 0-based Python index
At(seq, i) == seq[i + 1]

\* s.startswith(prefix)
startswith(s, prefix) ==
    /\ Len(prefix) <= Len(s)
    /\ SubSeq(s, 1, Len(prefix)) = prefix

\* sep.join(parts), parts a list of str
RECURSIVE join(_, _)
join(sep, parts) ==
    IF Len(parts) = 0 THEN <<>>
    ELSE IF Len(parts) = 1 THEN parts[1]
    ELSE parts[1] \o sep \o join(sep, Tail(parts))

\* str(i) for the small integers the programs format
str(i) == <<"0", "1", "2", "3", "4", "5", "6", "7", "8", "9">>[i + 1]

\* list(range(start, stop))
range(start, stop) == [k \in 1..(IF stop > start THEN stop - start ELSE 0) |-> start + k - 1]

\* f'translation{i}'
trans_key(i) == <<"translation1", "translation2", "translation3",
                  "translation4", "translation5">>[i]

(***************************************************************************)
(* openai_subtopics_batch_input.py: create_prompt.                         *)
(* The fixed instruction text of a template is one token; the line breaks  *)
(* and quotes next to the substituted values are tokens of their own.      *)
(***************************************************************************)

\* the list `translations` (lines 14-18)
sub_translations(target_verse) ==
    LET keys == SelectSeq(range(1, 4),
                    LAMBDA i : /\ trans_key(i) \in DOMAIN target_verse
                               /\ target_verse[trans_key(i)] # <<>>)
    IN  [k \in 1..Len(keys) |-> target_verse[trans_key(keys[k])]]

\* one element of the joined list: f"Translation {i}: \"{trans}\""
sub_translation_line(i, trans) ==
    <<"Translation ", str(i), ": ", QUOTE>> \o trans \o <<QUOTE>>

\* a variant that labels each translation with the number of its source key
sub_translations_text_SourceNumbers(target_verse) ==
    LET keys == SelectSeq(range(1, 4),
                    LAMBDA i : /\ trans_key(i) \in DOMAIN target_verse
                               /\ target_verse[trans_key(i)] # <<>>)
    IN  join(<<NL>>, [k \in 1..Len(keys) |->
                        sub_translation_line(keys[k], target_verse[trans_key(keys[k])])])

\* translations_text (line 20): enumerate(translations, start=1)
sub_translations_text(target_verse) ==
    LET translations == sub_translations(target_verse)
    IN  join(<<NL>>, [k \in 1..Len(translations) |->
                        sub_translation_line(k, translations[k])])

\* a variant that falls back to the empty string
sub_arabic_text_NoPlaceholder(target_verse) == Get(target_verse, "arabic", <<>>)

\* arabic_text (line 23)
sub_arabic_text(target_verse) ==
    Get(target_verse, "arabic", <<"No Arabic text provided">>)

\* subtopics_str (lines 26-27)
sub_subtopics_str(target_verse) ==
    LET subtopics == Get(target_verse, "subtopic", <<>>)
    IN  IF subtopics # <<>> THEN join(<<", ">>, subtopics)
        ELSE <<"No subtopics provided">>

\* the f-string of lines 29-106
create_prompt(target_verse) ==
    <<"<refinement instructions>", NL, "Target Verse:", NL, NL, "Arabic: ">>
    \o sub_arabic_text(target_verse)
    \o <<NL, "Translations: ">> \o sub_translations_text(target_verse)
    \o <<NL, "Existing Subtopics: ">> \o sub_subtopics_str(target_verse)
    \o <<NL>>

(***************************************************************************)
(* openai_tags_batch_input.py: get_verse_context, format_context_verse,    *)
(* create_tags_prompt.                                                     *)
(***************************************************************************)

\* a variant whose previous verse exists only from the third verse on
get_verse_context_LatePrev(dat, current_index) ==
    [prev_verse |-> IF current_index > 1 THEN At(dat, current_index - 1) ELSE None,
     current_verse |-> At(dat, current_index),
     next_verse |-> IF current_index < Len(dat) - 1
                    THEN At(dat, current_index + 1) ELSE None]

\* get_verse_context (lines 10-24); the returned triple as a record
get_verse_context(dat, current_index) ==
    [prev_verse |-> IF current_index > 0 THEN At(dat, current_index - 1) ELSE None,
     current_verse |-> At(dat, current_index),
     next_verse |-> IF current_index < Len(dat) - 1
                    THEN At(dat, current_index + 1) ELSE None]

\* format_context_verse (lines 26-37)
format_context_verse(verse, verse_type) ==
    IF ~Truthy(verse) THEN <<"No ", verse_type, " available">>
    ELSE <<"Arabic: ">> \o Get(verse, "arabic", <<"No Arabic text available">>)
         \o <<NL, "Translation: ">>
         \o Get(verse, "translation1", <<"No translation available">>)

\* prev_text / next_text (lines 43-44)
tags_context_text(verse, verse_type) ==
    IF Truthy(verse) THEN format_context_verse(verse, verse_type)
    ELSE <<"No ", verse_type, " available">>

\* target_translation1..3 (lines 48-50)
tags_target_translation(target_verse, i) ==
    Get(target_verse, trans_key(i), <<"No translation", str(i), " available">>)

\* topics_str, subtopics_str (lines 53-57)
tags_list_str(target_verse, key, placeholder) ==
    LET items == Get(target_verse, key, <<>>)
    IN  IF items # <<>> THEN join(<<", ">>, items) ELSE <<placeholder>>

\* the f-string of lines 59-105
create_tags_prompt(prev_verse, target_verse, next_verse) ==
    <<"<tagging instructions>", NL, "Previous Verse:", NL>>
    \o tags_context_text(prev_verse, "previous verse")
    \o <<NL, NL, "Next Verse:", NL>>
    \o tags_context_text(next_verse, "next verse")
    \o <<NL, NL, "Target Verse:", NL, "Arabic: ">>
    \o Get(target_verse, "arabic", <<"No Arabic text available">>)
    \o <<NL, "Translation1: ">> \o tags_target_translation(target_verse, 1)
    \o <<NL, "Translation2: ">> \o tags_target_translation(target_verse, 2)
    \o <<NL, "Translation3: ">> \o tags_target_translation(target_verse, 3)
    \o <<NL, "Topics: ">> \o tags_list_str(target_verse, "topic", "No topics provided")
    \o <<NL, "Subtopics: ">>
    \o tags_list_str(target_verse, "subtopic", "No subtopics provided")
    \o <<NL, NL, "<output format>">>

(***************************************************************************)
(* The request dict built in the loop of create_batch_file, json.dumps of  *)
(* it, and the reading back of the sample line in main().                  *)
(***************************************************************************)

\* decimal digits of a natural number (json.dumps of an int)
RECURSIVE json_int(_)
json_int(n) == IF n < 10 THEN <<str(n)>> ELSE json_int(n \div 10) \o <<str(n % 10)>>

\* the escaping json.dumps applies inside a string; ensure_ascii=False
\* leaves every other character as it is
json_escape(s) ==
    [k \in 1..Len(s) |-> IF s[k] = NL THEN "\\n"
                         ELSE IF s[k] = QUOTE THEN "\\\""
                         ELSE s[k]]

\* a variant that writes the characters of a string as they are
json_str_Raw(s) == <<QUOTE>> \o s \o <<QUOTE>>

\* json.dumps of a str
json_str(s) == <<QUOTE>> \o json_escape(s) \o <<QUOTE>>

\* json.dumps(request, ensure_ascii=False), keys in insertion order
json_dumps(request) ==
    <<"{\"custom_id\": ">> \o json_str(request.custom_id)
    \o <<", \"method\": ">> \o json_str(request.method)
    \o <<", \"url\": ">> \o json_str(request.url)
    \o <<", \"body\": {\"model\": ">> \o json_str(request.body.model)
    \o <<", \"messages\": [{\"role\": ">> \o json_str(request.body.messages[1].role)
    \o <<", \"content\": ">> \o json_str(request.body.messages[1].content)
    \o <<"}, {\"role\": ">> \o json_str(request.body.messages[2].role)
    \o <<", \"content\": ">> \o json_str(request.body.messages[2].content)
    \o <<"}], \"max_tokens\": ">> \o json_int(request.body.max_tokens)
    \o <<", \"temperature\": ", request.body.temperature, "}}">>

\* the position of the first `tok` of seq at or after `from`, 0 if none
first_index(seq, tok, from) ==
    LET hits == {k \in from..Len(seq) : seq[k] = tok}
    IN  IF hits = {} THEN 0 ELSE CHOOSE k \in hits : \A j \in hits : k <= j

\* f.readline(): the text up to and including the first line terminator
readline(content) ==
    LET end == first_index(content, NL, 1)
    IN  IF end = 0 THEN content ELSE SubSeq(content, 1, end)

\* the characters of the JSON string whose first character is at position
\* `at` of `line`: up to the closing quote, escapes undone
json_string_at(line, at) ==
    LET close == first_index(line, QUOTE, at)
        last == IF close = 0 THEN Len(line) ELSE close - 1
    IN  [k \in 1..(last - at + 1) |->
            LET c == line[at + k - 1]
            IN  IF c = "\\n" THEN NL ELSE IF c = "\\\"" THEN QUOTE ELSE c]

\* json.loads(line)['custom_id'] (lines 197-198): the first member's value
json_loads_custom_id(line) == json_string_at(line, 3)

\* the request dict of lines 139-158 (subtopics) / 139-158 (tags)
batch_request(script, target_verse, prompt) ==
    [custom_id |-> target_verse["id"],
     method |-> <<"POST">>,
     url |-> <<"/v1/chat/completions">>,
     body |-> [model |-> <<"gpt-4.1-2025-04-14">>,
               messages |-> <<
                   [role |-> <<"system">>,
                    content |-> IF script = "subtopics"
                                THEN <<"You are an expert Islamic scholar. Always respond with valid JSON only.">>
                                ELSE <<"You are an expert Islamic scholar specializing in Quranic interpretation. Always respond with valid JSON only.">>],
                   [role |-> <<"user">>, content |-> prompt] >>,
               max_tokens |-> IF script = "subtopics" THEN 300 ELSE 150,
               temperature |-> "0.1"]]

(***************************************************************************)
(* create_batch_file and main: the pieces of the two scripts.              *)
(***************************************************************************)

\* a variant that answers a file it cannot read with an empty dataset
load_dataset_EmptyOnError(src) ==
    IF src.state = "ok" THEN [raised |-> FALSE, data |-> src.data]
    ELSE [raised |-> FALSE, data |-> <<>>]

\* load_dataset (lines 4-8): json.load of the file, or an exception
load_dataset(src) ==
    IF src.state = "ok" THEN [raised |-> FALSE, data |-> src.data]
    ELSE [raised |-> TRUE, data |-> <<>>]

\* `if surah_filter:` (line 118)
filter_given(flt) == flt.present /\ flt.val # <<>>

\* verse.get('id', '').startswith(f'{surah_filter}|') (line 120)
id_matches(verse, flt) == startswith(Get(verse, "id", <<>>), flt.val \o <<"|">>)

\* a variant whose all-verses branch also runs after the filtering loop
filtered_indices_of_NoElse(dat, flt) ==
    IF filter_given(flt)
    THEN SelectSeq(range(0, Len(dat)), LAMBDA i : id_matches(At(dat, i), flt))
         \o range(0, Len(dat))
    ELSE range(0, Len(dat))

\* the 0-based indices kept by lines 117-125
filtered_indices_of(dat, flt) ==
    IF filter_given(flt)
    THEN SelectSeq(range(0, Len(dat)), LAMBDA i : id_matches(At(dat, i), flt))
    ELSE range(0, Len(dat))

\* filtered_data of the subtopics script, (i, verse) pairs; filtered_indices
\* of the tags script
filter_verses(script, dat, flt) ==
    LET idx == filtered_indices_of(dat, flt)
    IN  IF script = "subtopics"
        THEN [k \in 1..Len(idx) |-> <<idx[k], At(dat, idx[k])>>]
        ELSE idx

\* the verse one element of the filtered list stands for
target_of(script, dat, item) == IF script = "subtopics" THEN item[2] ELSE At(dat, item)

\* a variant that applies the subtopic test in both scripts
skip_verse_BothScripts(script, target_verse) ==
    \/ "subtopic" \notin DOMAIN target_verse
    \/ target_verse["subtopic"] = <<>>

\* `if 'subtopic' not in target_verse or not target_verse['subtopic']: continue`
\* (subtopics script, lines 131-133); the tags script has no such test
skip_verse(script, target_verse) ==
    /\ script = "subtopics"
    /\ \/ "subtopic" \notin DOMAIN target_verse
       \/ target_verse["subtopic"] = <<>>

\* the prompt of one iteration (line 136 of either script)
prompt_of(script, dat, item) ==
    IF script = "subtopics" THEN create_prompt(item[2])
    ELSE LET ctx == get_verse_context(dat, item)
         IN  create_tags_prompt(ctx.prev_verse, At(dat, item), ctx.next_verse)

\* the text f.write leaves in a file opened with 'w' (lines 163-165)
RECURSIVE written_lines(_)
written_lines(requests) ==
    IF requests = <<>> THEN <<>>
    ELSE json_dumps(Head(requests)) \o <<NL>> \o written_lines(Tail(requests))

file_after_write(old_content, requests) == written_lines(requests)

(***************************************************************************)
(* Inputs.                                                                 *)
(***************************************************************************)
OptField(key, values) == {EmptyDict} \cup {key :> v : v \in values}

IdValues ==
    { <<>>, <<"1", "|", "1">>, <<"1", "|", "2">>, <<"2", "|", "1">>,
      <<"1", "1", "|", "1">> }

\* verses of the pipeline runs.  Every id value (or no id) comes with an
\* empty and with a non-empty subtopic list; two verses have no subtopic key.
\* A verse with an id carries an Arabic text naming it.
WithArabic(v) ==
    (IF "id" \in DOMAIN v THEN "arabic" :> (<<"ar">> \o v["id"]) ELSE EmptyDict) @@ v

Verses ==
    { WithArabic(a @@ ("subtopic" :> b)) :
         a \in {EmptyDict} \cup {"id" :> i : i \in IdValues},
         b \in { <<>>, << <<"s">> >> } }
    \cup { WithArabic("id" :> <<"1", "|", "2">>), EmptyDict }

Stores == UNION { [1..n -> Verses] : n \in 0..MaxStore }

Sources ==
    { [state |-> "missing", data |-> <<>>], [state |-> "malformed", data |-> <<>>] }
    \cup { [state |-> "ok", data |-> S] : S \in Stores }

Filters ==
    { [present |-> FALSE, val |-> <<>>] }
    \cup { [present |-> TRUE, val |-> v] : v \in { <<>>, <<"1">> } }

PriorArtifact == [content |-> <<"<earlier run>", NL>>, opened |-> FALSE]
NoSample == [shown |-> FALSE, custom_id |-> <<>>]
RenderOff == [phase |-> "off"]

(***************************************************************************)
(* The run of one script: main() calling create_batch_file().              *)
(***************************************************************************)
Init ==
    /\ pipeline \in {"subtopics", "tags"}
    /\ source \in Sources
    /\ surah_filter \in Filters
    /\ pc = "main"
    /\ data = <<>>
    /\ filtered = <<>>
    /\ pos = 0
    /\ batch_requests = <<>>
    /\ output_file = PriorArtifact
    /\ result = 0
    /\ sample = NoSample
    /\ render = RenderOff

\* main, lines 178-184: the input file must exist
MainCheckInput ==
    /\ pc = "main"
    /\ pc' = IF source.state = "missing" THEN "returned" ELSE "load"
    /\ UNCHANGED <<pipeline, source, surah_filter, data, filtered, pos,
                   batch_requests, output_file, result, sample, render>>

\* create_batch_file, line 114; an exception reaches main's except clause
LoadDataset ==
    /\ pc = "load"
    /\ LET r == load_dataset(source)
       IN  IF r.raised
           THEN /\ pc' = "failed"
                /\ data' = data
           ELSE /\ pc' = "filter"
                /\ data' = r.data
    /\ UNCHANGED <<pipeline, source, surah_filter, filtered, pos,
                   batch_requests, output_file, result, sample, render>>

\* create_batch_file, lines 116-125
FilterVerses ==
    /\ pc = "filter"
    /\ filtered' = filter_verses(pipeline, data, surah_filter)
    /\ pc' = "build"
    /\ UNCHANGED <<pipeline, source, surah_filter, data, pos,
                   batch_requests, output_file, result, sample, render>>

\* one iteration of the loop of lines 130-160
BuildRequest ==
    /\ pc = "build"
    /\ pos < Len(filtered)
    /\ LET item == filtered[pos + 1]
           target_verse == target_of(pipeline, data, item)
       IN  IF skip_verse(pipeline, target_verse)
           THEN /\ pos' = pos + 1
                /\ UNCHANGED <<pc, batch_requests>>
           ELSE IF "id" \notin DOMAIN target_verse
           THEN \* target_verse['id'] raises KeyError
                /\ pc' = "failed"
                /\ UNCHANGED <<pos, batch_requests>>
           ELSE /\ batch_requests' =
                       Append(batch_requests,
                              batch_request(pipeline, target_verse,
                                            prompt_of(pipeline, data, item)))
                /\ pos' = pos + 1
                /\ pc' = pc
    /\ UNCHANGED <<pipeline, source, surah_filter, data, filtered,
                   output_file, result, sample, render>>

\* lines 162-170: open the destination, write every request, return the count;
\* open may raise (destination directory missing, no permission)
WriteFile ==
    /\ pc = "build"
    /\ pos = Len(filtered)
    /\ \/ /\ output_file' = [content |-> file_after_write(output_file.content,
                                                          batch_requests),
                             opened |-> TRUE]
          /\ result' = Len(batch_requests)
          /\ pc' = "report"
       \/ /\ pc' = "failed"
          /\ UNCHANGED <<output_file, result>>
    /\ UNCHANGED <<pipeline, source, surah_filter, data, filtered, pos,
                   batch_requests, sample, render>>

\* main, lines 186-200: report, and display the first line when there is one
MainReport ==
    /\ pc = "report"
    /\ sample' = IF result > 0
                 THEN [shown |-> TRUE,
                       custom_id |-> json_loads_custom_id(readline(output_file.content))]
                 ELSE sample
    /\ pc' = "done"
    /\ UNCHANGED <<pipeline, source, surah_filter, data, filtered, pos,
                   batch_requests, output_file, result, render>>

Next ==
    \/ MainCheckInput
    \/ LoadDataset
    \/ FilterVerses
    \/ BuildRequest
    \/ WriteFile
    \/ MainReport

Spec == Init /\ [][Next]_vars

(***************************************************************************)
(* The two prompt renderers applied directly to one verse (and, for the    *)
(* tags renderer, its two neighbours).                                     *)
(***************************************************************************)

\* the translation fields of a verse: key i is absent, empty or a text
RECURSIVE TranslationFields(_, _)
TranslationFields(choice, n) ==
    IF n = 0 THEN EmptyDict
    ELSE TranslationFields(choice, n - 1)
         @@ (CASE choice[n] = "absent" -> EmptyDict
               [] choice[n] = "empty" -> trans_key(n) :> <<>>
               [] OTHER -> trans_key(n) :> <<"t", str(n)>>)

ListValues == { <<>>, << <<"x">>, <<"y">> >> }

RenderVerses ==
    { ("id" :> <<"1", "|", "1">>) @@ a @@ TranslationFields(c, MaxTransKeys) @@ t @@ u :
         a \in OptField("arabic", { <<>>, <<"a">> }),
         c \in [1..MaxTransKeys -> {"absent", "empty", "text"}],
         t \in OptField("topic", ListValues),
         u \in OptField("subtopic", ListValues) }

\* a neighbour: none, or a verse with or without Arabic text and translation1
ContextVerses ==
    { None,
      "id" :> <<"1", "|", "2">>,
      ("id" :> <<"1", "|", "2">>) @@ ("arabic" :> <<"b">>),
      ("id" :> <<"1", "|", "2">>) @@ ("arabic" :> <<"b">>)
          @@ ("translation1" :> <<"u", "1">>) }

InitRender ==
    /\ pipeline = "subtopics"
    /\ source = [state |-> "missing", data |-> <<>>]
    /\ surah_filter = [present |-> FALSE, val |-> <<>>]
    /\ pc = "idle"
    /\ data = <<>>
    /\ filtered = <<>>
    /\ pos = 0
    /\ batch_requests = <<>>
    /\ output_file = PriorArtifact
    /\ result = 0
    /\ sample = NoSample
    /\ render \in { [phase |-> "input", target |-> v, prev_verse |-> p,
                     next_verse |-> n, out |-> <<>>] :
                    v \in RenderVerses, p \in ContextVerses, n \in ContextVerses }

\* create_prompt(target_verse)
RenderRefinement ==
    /\ render.phase = "input"
    /\ render' = [render EXCEPT !.phase = "refined",
                                !.out = create_prompt(render.target)]
    /\ UNCHANGED <<pipeline, source, surah_filter, pc, data, filtered, pos,
                   batch_requests, output_file, result, sample>>

\* create_tags_prompt(prev_verse, target_verse, next_verse)
RenderTags ==
    /\ render.phase = "input"
    /\ render' = [render EXCEPT !.phase = "tagged",
                                !.out = create_tags_prompt(render.prev_verse,
                                                           render.target,
                                                           render.next_verse)]
    /\ UNCHANGED <<pipeline, source, surah_filter, pc, data, filtered, pos,
                   batch_requests, output_file, result, sample>>

NextRender ==
    \/ RenderRefinement
    \/ RenderTags

SpecRender == InitRender /\ [][NextRender]_vars

(***************************************************************************)
(* Reading a rendered prompt back: the text between two template pieces.   *)
(***************************************************************************)
IndexOf(seq, tok, from) == first_index(seq, tok, from)

Has(seq, tok) == IndexOf(seq, tok, 1) # 0
After(seq, tok) == SubSeq(seq, IndexOf(seq, tok, 1) + 1, Len(seq))
Before(seq, tok) == SubSeq(seq, 1, IndexOf(seq, tok, 1) - 1)
DropLast(seq, n) == SubSeq(seq, 1, Len(seq) - n)
DropFirst(seq, n) == SubSeq(seq, n + 1, Len(seq))

\* the value substituted between the template pieces a and b, which are
\* separated from it by `gap` line breaks after the value
Slot(text, a, b, gap) == DropLast(Before(After(text, a), b), gap)

\* the pieces of a text separated by line breaks; the empty text has none
RECURSIVE SplitJoined(_)
SplitJoined(text) ==
    IF text = <<>> THEN <<>>
    ELSE IF Has(text, NL) THEN <<Before(text, NL)>> \o
                               (IF After(text, NL) = <<>> THEN << <<>> >>
                                ELSE SplitJoined(After(text, NL)))
    ELSE <<text>>

\* the translation lines of a refinement prompt, each as <<label, text>>
TranslationBlock(prompt) == Slot(prompt, "Translations: ", "Existing Subtopics: ", 1)

TranslationLinesWellFormed(prompt) ==
    \A l \in { SplitJoined(TranslationBlock(prompt))[k] :
                 k \in 1..Len(SplitJoined(TranslationBlock(prompt))) } :
        /\ Len(l) >= 5
        /\ l[1] = "Translation " /\ l[3] = ": " /\ l[4] = QUOTE /\ l[Len(l)] = QUOTE

TranslationLines(prompt) ==
    LET ls == SplitJoined(TranslationBlock(prompt))
    IN  [k \in 1..Len(ls) |-> <<ls[k][2], SubSeq(ls[k], 5, Len(ls[k]) - 1)>>]

\* the texts of `keys` (numbers of translation keys), labelled 1..k
Labelled(verse, keys) ==
    [k \in 1..Len(keys) |-> <<str(k), verse[trans_key(keys[k])]>>]

PresentKeys(verse, n) ==
    SelectSeq([i \in 1..n |-> i], LAMBDA i : trans_key(i) \in DOMAIN verse)

NonEmptyKeys(verse, n) ==
    SelectSeq([i \in 1..n |-> i],
              LAMBDA i : trans_key(i) \in DOMAIN verse /\ verse[trans_key(i)] # <<>>)

(***************************************************************************)
(* C6.  As stated: the refinement renderer embeds every translation field  *)
(* present on the record, once each, in source order, labelled 1..k with k *)
(* the number of present translations.                                     *)
(***************************************************************************)
C6_EveryPresentTranslationNumbered ==
    render.phase = "refined" =>
        /\ TranslationLinesWellFormed(render.out)
        /\ TranslationLines(render.out)
             = Labelled(render.target, PresentKeys(render.target, MaxTransKeys))

\* C6 as amended: the refinement renderer embeds every non-empty field among
\* translation1, translation2, translation3, once each, in source order,
\* labelled 1..k with k the number of those fields; an empty translation and
\* a translation key beyond translation3 get no line.
C6_NonEmptyFirstThreeNumbered ==
    render.phase = "refined" =>
        /\ TranslationLinesWellFormed(render.out)
        /\ TranslationLines(render.out)
             = Labelled(render.target, NonEmptyKeys(render.target, 3))

\* a verse with only translation1 and translation3 rendered as lines 1 and 2
C6_Witness ==
    /\ render.phase = "refined"
    /\ NonEmptyKeys(render.target, MaxTransKeys) = <<1, 3>>
    /\ PresentKeys(render.target, MaxTransKeys) = <<1, 3>>
    /\ TranslationLines(render.out) = << <<"1", <<"t", "1">> >>, <<"2", <<"t", "3">> >> >>

(***************************************************************************)
(* The substituted values of the two prompts.                              *)
(***************************************************************************)
RefinedArabic(prompt) == Slot(prompt, "Arabic: ", "Translations: ", 1)
RefinedSubtopics(prompt) == DropLast(After(prompt, "Existing Subtopics: "), 1)

TaggedPrev(prompt) == DropFirst(Slot(prompt, "Previous Verse:", "Next Verse:", 2), 1)
TaggedNext(prompt) == DropFirst(Slot(prompt, "Next Verse:", "Target Verse:", 2), 1)
TaggedTarget(prompt) == After(prompt, "Target Verse:")
TaggedArabic(prompt) == Slot(TaggedTarget(prompt), "Arabic: ", "Translation1: ", 1)
TaggedTranslation(prompt, i) ==
    CASE i = 1 -> Slot(TaggedTarget(prompt), "Translation1: ", "Translation2: ", 1)
      [] i = 2 -> Slot(TaggedTarget(prompt), "Translation2: ", "Translation3: ", 1)
      [] i = 3 -> Slot(TaggedTarget(prompt), "Translation3: ", "Topics: ", 1)
TaggedTopics(prompt) == Slot(TaggedTarget(prompt), "Topics: ", "Subtopics: ", 1)
TaggedSubtopics(prompt) == Slot(TaggedTarget(prompt), "Subtopics: ", "<output format>", 2)

Lacks(verse, key) == key \notin DOMAIN verse
LacksOrEmpty(verse, key) == key \notin DOMAIN verse \/ verse[key] = <<>>

\* what a neighbour must read as in a tags prompt
ContextAsDocumented(verse, verse_type) ==
    IF verse = None THEN <<"No ", verse_type, " available">>
    ELSE <<"Arabic: ">>
         \o (IF Lacks(verse, "arabic") THEN <<"No Arabic text available">>
             ELSE verse["arabic"])
         \o <<NL, "Translation: ">>
         \o (IF Lacks(verse, "translation1") THEN <<"No translation available">>
             ELSE verse["translation1"])

\* the fields of the refinement prompt that have a placeholder
C7_RefinedPlaceholders ==
    render.phase = "refined" =>
        /\ Len(render.out) > 0
        /\ RefinedArabic(render.out) =
              (IF Lacks(render.target, "arabic") THEN <<"No Arabic text provided">>
               ELSE render.target["arabic"])
        /\ RefinedSubtopics(render.out) =
              (IF LacksOrEmpty(render.target, "subtopic") THEN <<"No subtopics provided">>
               ELSE join(<<", ">>, render.target["subtopic"]))

\* every field of the tags prompt, and both neighbours
C7_TaggedPlaceholders ==
    render.phase = "tagged" =>
        /\ Len(render.out) > 0
        /\ TaggedArabic(render.out) =
              (IF Lacks(render.target, "arabic") THEN <<"No Arabic text available">>
               ELSE render.target["arabic"])
        /\ \A i \in 1..3 :
              TaggedTranslation(render.out, i) =
                 (IF Lacks(render.target, trans_key(i))
                  THEN <<"No translation", str(i), " available">>
                  ELSE render.target[trans_key(i)])
        /\ TaggedTopics(render.out) =
              (IF LacksOrEmpty(render.target, "topic") THEN <<"No topics provided">>
               ELSE join(<<", ">>, render.target["topic"]))
        /\ TaggedSubtopics(render.out) =
              (IF LacksOrEmpty(render.target, "subtopic") THEN <<"No subtopics provided">>
               ELSE join(<<", ">>, render.target["subtopic"]))
        /\ TaggedPrev(render.out) = ContextAsDocumented(render.prev_verse, "previous verse")
        /\ TaggedNext(render.out) = ContextAsDocumented(render.next_verse, "next verse")

(***************************************************************************)
(* C7.  As stated: both renderers return a string for every verse, and     *)
(* every absent field is replaced by a placeholder; a verse without any    *)
(* translation renders with a placeholder for each translation, in the     *)
(* refinement prompt too.                                                  *)
(***************************************************************************)
C7_EveryAbsentFieldHasPlaceholder ==
    /\ C7_RefinedPlaceholders
    /\ C7_TaggedPlaceholders
    /\ (render.phase = "refined" /\ \A i \in 1..3 : Lacks(render.target, trans_key(i)))
          => TranslationBlock(render.out) # <<>>

\* C7 as amended: both renderers return a string for every verse.  The
\* refinement prompt replaces an absent arabic and an absent or empty subtopic
\* list by their placeholders, and has no placeholder for translations: a
\* verse with no non-empty translation1..3 renders an empty translations
\* block.  The tags prompt replaces an absent arabic, each absent
\* translation1..3, an absent or empty topic or subtopic list, each absent
\* neighbour and each absent arabic or translation1 of a neighbour by its
\* placeholder.
C7_PlaceholdersWhereDefined ==
    /\ C7_RefinedPlaceholders
    /\ C7_TaggedPlaceholders
    /\ (render.phase = "refined" /\ NonEmptyKeys(render.target, 3) = <<>>)
          => TranslationBlock(render.out) = <<>>

\* a verse with no arabic, no translation and no subtopic, refined
C7_Witness ==
    /\ render.phase = "refined"
    /\ Lacks(render.target, "arabic")
    /\ Lacks(render.target, "subtopic")
    /\ \A i \in 1..MaxTransKeys : Lacks(render.target, trans_key(i))
    /\ RefinedArabic(render.out) = <<"No Arabic text provided">>
    /\ RefinedSubtopics(render.out) = <<"No subtopics provided">>

(***************************************************************************)
(* Reading a run.                                                          *)
(***************************************************************************)
Finished == pc \in {"done", "failed", "returned"}
Written == pc \in {"report", "done"}

\* the run ended in the except clause because open() raised
OpenFailed == pc = "failed" /\ source.state = "ok" /\ pos = Len(filtered)

\* the lines of a file, each with its terminator; an unterminated rest counts
RECURSIVE FileLines(_)
FileLines(content) ==
    IF content = <<>> THEN <<>>
    ELSE LET end == IndexOf(content, NL, 1)
         IN  IF end = 0 THEN <<content>>
             ELSE <<SubSeq(content, 1, end)>>
                  \o FileLines(SubSeq(content, end + 1, Len(content)))

EndsWithTerminator(content) == content = <<>> \/ content[Len(content)] = NL

ArtifactIds ==
    LET lines == FileLines(output_file.content)
    IN  [k \in 1..Len(lines) |-> json_loads_custom_id(lines[k])]

UserPrompt(request) == request.body.messages[2].content

\* the canonical index an element of the filtered list stands for
ItemIndex(item) == IF pipeline = "subtopics" THEN item[1] ELSE item

HasSubtopics(verse) == "subtopic" \in DOMAIN verse /\ verse["subtopic"] # <<>>

\* the canonical indices, among the elements the loop has gone through, whose
\* verse the loop did not skip
KeptIndices ==
    SelectSeq([k \in 1..pos |-> ItemIndex(filtered[k])],
              LAMBDA i : pipeline = "tags" \/ HasSubtopics(At(source.data, i)))

Indices(S) == [k \in 1..Len(S) |-> k - 1]

\* the group test as the specification states it: a present filter is a prefix
GroupTestAsStated(verse, flt) ==
    \/ ~flt.present
    \/ /\ "id" \in DOMAIN verse
       /\ startswith(verse["id"], flt.val \o <<"|">>)

SelectedAsStated(S, flt) ==
    SelectSeq(Indices(S), LAMBDA i : /\ GroupTestAsStated(At(S, i), flt)
                                     /\ HasSubtopics(At(S, i)))

UsableId(verse) == "id" \in DOMAIN verse /\ verse["id"] # <<>>

Distinct(seq) == \A j, k \in 1..Len(seq) : j # k => seq[j] # seq[k]

UniqueIds(S) ==
    /\ \A k \in 1..Len(S) : "id" \in DOMAIN S[k]
    /\ Distinct([k \in 1..Len(S) |-> S[k]["id"]])

(***************************************************************************)
(* C1.  As stated: in the refinement script, for every store and every     *)
(* group filter, the run ends with one envelope for each record whose id   *)
(* starts with filter + "|" (every record when the filter is absent) and   *)
(* whose subtopic list is non-empty, in store order; no match is an empty  *)
(* batch and not an error.                                                 *)
(***************************************************************************)
C1_SelectionAsStated ==
    (pipeline = "subtopics" /\ source.state = "ok" /\ Finished /\ ~OpenFailed) =>
        LET sel == SelectedAsStated(source.data, surah_filter)
        IN  /\ pc = "done"
            /\ result = Len(sel)
            /\ Len(batch_requests) = Len(sel)
            /\ \A k \in 1..Len(sel) :
                  /\ batch_requests[k].custom_id = At(source.data, sel[k])["id"]
                  /\ UserPrompt(batch_requests[k]) = create_prompt(At(source.data, sel[k]))
            /\ ArtifactIds = [k \in 1..Len(sel) |-> At(source.data, sel[k])["id"]]

(***************************************************************************)
(* C2.  In the tags script the prompt of every envelope is rendered from   *)
(* the record before and the record after its own record in the loaded     *)
(* store, whatever the filter kept: no previous record exactly at index 0, *)
(* no next record exactly at the last index.                               *)
(***************************************************************************)
C2_NeighboursFromStore ==
    pipeline = "tags" =>
        /\ Len(batch_requests) = Len(KeptIndices)
        /\ \A k \in 1..Len(batch_requests) :
              LET i == KeptIndices[k]
                  S == source.data
              IN  UserPrompt(batch_requests[k]) =
                     create_tags_prompt(IF i = 0 THEN None ELSE At(S, i - 1),
                                        At(S, i),
                                        IF i = Len(S) - 1 THEN None ELSE At(S, i + 1))

\* an envelope whose previous record was filtered out, and shows in its prompt
C2_Witness ==
    /\ pipeline = "tags"
    /\ filter_given(surah_filter)
    /\ pc = "done"
    /\ \E k \in 1..Len(batch_requests) :
          LET i == KeptIndices[k]
          IN  /\ i > 0
              /\ At(source.data, i - 1) = WithArabic("id" :> <<"2", "|", "1">>
                                                      @@ "subtopic" :> << <<"s">> >>)
              /\ TaggedPrev(UserPrompt(batch_requests[k])) =
                    <<"Arabic: ", "ar", "2", "|", "1", NL,
                      "Translation: ", "No translation available">>

(***************************************************************************)
(* C3.  As stated: every envelope's custom_id is the id of its record, and *)
(* no envelope with an empty custom_id is ever emitted, in both scripts.   *)
(***************************************************************************)
C3_NoEmptyCustomId ==
    /\ Len(batch_requests) = Len(KeptIndices)
    /\ \A k \in 1..Len(batch_requests) :
          /\ batch_requests[k].custom_id = At(source.data, KeptIndices[k])["id"]
          /\ batch_requests[k].custom_id # <<>>
    /\ pc = "done" => \A k \in 1..Len(ArtifactIds) : ArtifactIds[k] # <<>>

(***************************************************************************)
(* C4.  As stated: when a record the refinement script selects has no      *)
(* usable id, the run still completes and writes the envelopes of the      *)
(* other selected records, in order.                                       *)
(***************************************************************************)
C4_BadRecordSkipped ==
    (pipeline = "subtopics" /\ source.state = "ok" /\ Finished /\ ~OpenFailed) =>
        LET S == source.data
            sel == SelectSeq(filtered_indices_of(S, surah_filter),
                             LAMBDA i : HasSubtopics(At(S, i)))
            good == SelectSeq(sel, LAMBDA i : UsableId(At(S, i)))
        IN  /\ pc = "done"
            /\ ArtifactIds = [k \in 1..Len(good) |-> At(S, good[k])["id"]]

(***************************************************************************)
(* C5.  At the end of a successful run the artifact holds one terminated   *)
(* line per envelope and nothing else, the k-th line carries the id of the *)
(* k-th selected record, and the returned count is the number of lines.    *)
(***************************************************************************)
C5_OneLinePerEnvelope ==
    pc = "done" =>
        LET ids == ArtifactIds
            kept == KeptIndices
        IN  /\ EndsWithTerminator(output_file.content)
            /\ Len(ids) = Len(batch_requests)
            /\ result = Len(ids)
            /\ Len(kept) = Len(batch_requests)
            /\ ids = [k \in 1..Len(kept) |-> At(source.data, kept[k])["id"]]
            /\ result > 0 => sample = [shown |-> TRUE, custom_id |-> ids[1]]

\* a finished run that wrote two lines, the second verse of three skipped
C5_Witness ==
    /\ pc = "done"
    /\ pipeline = "subtopics"
    /\ Len(source.data) = 3
    /\ result = 2
    /\ ArtifactIds = << <<"1", "|", "1">>, <<"2", "|", "1">> >>

(***************************************************************************)
(* C8.  The scenario of the specification: three verses "1|1", "1|2" (with *)
(* an empty subtopic list) and "2|1", group filter "1", tags script.       *)
(***************************************************************************)
ScenarioStore ==
    << WithArabic("id" :> <<"1", "|", "1">> @@ "subtopic" :> << <<"s">> >>),
       WithArabic("id" :> <<"1", "|", "2">> @@ "subtopic" :> <<>>),
       WithArabic("id" :> <<"2", "|", "1">> @@ "subtopic" :> << <<"s">> >>) >>

ScenarioRun ==
    /\ pipeline = "tags"
    /\ source = [state |-> "ok", data |-> ScenarioStore]
    /\ surah_filter = [present |-> TRUE, val |-> <<"1">>]
    /\ pc = "done"

\* the first envelope of the scenario: no previous verse, next verse "1|2"
ScenarioFirstPrompt ==
    /\ TaggedPrev(UserPrompt(batch_requests[1])) = <<"No ", "previous verse", " available">>
    /\ TaggedNext(UserPrompt(batch_requests[1])) =
          <<"Arabic: ", "ar", "1", "|", "2", NL,
            "Translation: ", "No translation available">>

\* the group test the run applies: a filter that is absent or empty passes all
PassesGroupTest(verse, flt) ==
    \/ ~flt.present
    \/ flt.val = <<>>
    \/ /\ "id" \in DOMAIN verse
       /\ startswith(verse["id"], flt.val \o <<"|">>)

\* C8 as stated: the tags script gives no envelope to a record whose subtopic
\* list is missing or empty, and the scenario ends with the single line "1|1".
C8_TagsSkipEmptySubtopics ==
    /\ pipeline = "tags" =>
          \A k \in 1..Len(batch_requests) :
              HasSubtopics(At(source.data, ItemIndex(filtered[k])))
    /\ ScenarioRun =>
          /\ ArtifactIds = << <<"1", "|", "1">> >>
          /\ ScenarioFirstPrompt

\* C8 as amended: the tags script has no subtopic test; every record that
\* passes the group test gets an envelope, whatever its subtopic list.  The
\* scenario ends with two lines, "1|1" and "1|2" in this order; the prompt of
\* "1|1" has no previous verse and has "1|2" as its next verse.
C8_TagsKeepEmptySubtopics ==
    /\ (pipeline = "tags" /\ pc \in {"build", "report", "done"}) =>
          /\ Len(batch_requests) = pos
          /\ \A i \in 0..(Len(source.data) - 1) :
                PassesGroupTest(At(source.data, i), surah_filter)
                   <=> \E k \in 1..Len(filtered) : filtered[k] = i
          /\ \A k \in 1..Len(batch_requests) :
                batch_requests[k].custom_id = At(source.data, filtered[k])["id"]
    /\ ScenarioRun =>
          /\ ArtifactIds = << <<"1", "|", "1">>, <<"1", "|", "2">> >>
          /\ ScenarioFirstPrompt

C8_Witness ==
    /\ ScenarioRun
    /\ result = 2
    /\ ~HasSubtopics(At(source.data, 1))
    /\ ArtifactIds[2] = <<"1", "|", "2">>

(***************************************************************************)
(* C9.  The destination is opened for writing only in a run whose load     *)
(* succeeded; a run whose input is missing or malformed ends in failure    *)
(* with the destination as it was, no envelope and no loaded record.       *)
(***************************************************************************)
C9_NoOutputAfterFailedLoad ==
    /\ source.state # "ok" =>
          /\ output_file = PriorArtifact
          /\ batch_requests = <<>>
          /\ data = <<>>
          /\ pc \in {"main", "load", "failed", "returned"}
    /\ output_file # PriorArtifact =>
          /\ source.state = "ok"
          /\ data = source.data
          /\ Written

\* a malformed input: the run has failed and the destination is untouched
C9_Witness ==
    /\ source.state = "malformed"
    /\ pc = "failed"
    /\ output_file = PriorArtifact
    /\ ~output_file.opened

(***************************************************************************)
(* C10.  For a store whose records all have an id and whose ids are        *)
(* pairwise distinct, the custom_ids of the envelopes of a run, and of the *)
(* lines of its artifact, are pairwise distinct, in both scripts.          *)
(***************************************************************************)
C10_DistinctCustomIds ==
    (source.state = "ok" /\ UniqueIds(source.data)) =>
        /\ Distinct([k \in 1..Len(batch_requests) |-> batch_requests[k].custom_id])
        /\ pc = "done" => Distinct(ArtifactIds)

\* a finished run over distinct ids that wrote three lines
C10_Witness ==
    /\ pc = "done"
    /\ UniqueIds(source.data)
    /\ Len(ArtifactIds) = 3

====
